---------------------------- MODULE Spec2Model ----------------------------
(***************************************************************************)
(* A model of the TradingAgents PDF report scripts: the text sanitizer,    *)
(* the report assembler (generate_pdf_report) and the two entry points     *)
(* (generate_report.py and example_usage.py).                              *)
(*                                                                         *)
(* Python strings are sequences of one-character strings.  Python values   *)
(* that may be None, a str, a dict or missing are tagged records.          *)
(***************************************************************************)
EXTENDS Integers, Sequences, FiniteSets, TLC

\* ------------------------------------------------------------------------
\* Python values
\* ------------------------------------------------------------------------

\* str.isspace() characters of the model's alphabet (str.split() with no
\* argument splits on runs of these).
Whitespace == {" ", "\t", "\n"}

\* The three characters reportlab's paragraph markup reserves.
Reserved == {"&", "<", ">"}

PyNone == [tag |-> "None"]
Str(s) == [tag |-> "str", s |-> s]

\* Python truthiness of a value: None and "" are falsy.
IsStr(v) == v.tag = "str"

\* ------------------------------------------------------------------------
\* String helpers, computed as CPython computes them
\* ------------------------------------------------------------------------

RECURSIVE SplitFrom(_, _, _, _)
\* str.split(): the maximal runs of non-whitespace characters, in order.
SplitFrom(s, i, cur, acc) ==
    IF i > Len(s)
    THEN IF cur = <<>> THEN acc ELSE Append(acc, cur)
    ELSE IF s[i] \in Whitespace
         THEN SplitFrom(s, i + 1, <<>>, IF cur = <<>> THEN acc ELSE Append(acc, cur))
         ELSE SplitFrom(s, i + 1, Append(cur, s[i]), acc)

Split(s) == SplitFrom(s, 1, <<>>, <<>>)

RECURSIVE Join(_, _)
\* sep.join(words)
Join(sep, words) ==
    IF words = <<>> THEN <<>>
    ELSE IF Len(words) = 1 THEN words[1]
    ELSE words[1] \o sep \o Join(sep, Tail(words))

RECURSIVE Replace(_, _, _)
\* str.replace(old, new) for a one-character old.
Replace(s, old, new) ==
    IF s = <<>> THEN <<>>
    ELSE (IF Head(s) = old THEN new ELSE <<Head(s)>>) \o Replace(Tail(s), old, new)

AMP == <<"&", "a", "m", "p", ";">>
LT == <<"&", "l", "t", ";">>
GT == <<"&", "g", "t", ";">>
NO_DATA == <<"N", "o", " ", "d", "a", "t", "a", " ",
             "a", "v", "a", "i", "l", "a", "b", "l", "e", ".">>

\* A sanitizer that escapes '&' last: it escapes the entities it has just made.
CleanAmpLast(text) ==
    IF ~IsStr(text) \/ text.s = <<>> THEN NO_DATA
    ELSE Replace(Replace(Replace(Join(<<" ">>, Split(text.s)),
                                 "<", LT), ">", GT), "&", AMP)

\* A sanitizer that escapes but leaves the whitespace as it found it.
CleanNoCollapse(text) ==
    IF ~IsStr(text) \/ text.s = <<>> THEN NO_DATA
    ELSE Replace(Replace(Replace(text.s, "&", AMP), "<", LT), ">", GT)

\* TradingReportGenerator._clean_text_for_pdf: "if not text" answers None and
\* "" alike; then ' '.join(text.split()) and the three replace calls in order.
_clean_text_for_pdf(text) ==
    IF ~IsStr(text) \/ text.s = <<>> THEN NO_DATA
    ELSE Replace(Replace(Replace(Join(<<" ">>, Split(text.s)),
                                 "&", AMP), "<", LT), ">", GT)

\* ------------------------------------------------------------------------
\* Bounds and input alphabets
\* ------------------------------------------------------------------------

\* Longest sanitizer input enumerated.
MaxLen == 4

\* Characters of sanitizer inputs: two ordinary ones, the reserved three and
\* three kinds of whitespace.
Alphabet == {"a", ";", "&", "<", ">", " ", "\t", "\n"}

RECURSIVE StringsUpTo(_)
StringsUpTo(n) ==
    IF n = 0 THEN {<<>>}
    ELSE LET shorter == StringsUpTo(n - 1)
         IN shorter \cup {Append(s, c) : s \in {t \in shorter : Len(t) = n - 1}, c \in Alphabet}

CleanInputs == {PyNone} \cup {Str(s) : s \in StringsUpTo(MaxLen)}


\* ------------------------------------------------------------------------
\* The Analysis Result (final_state) returned by TradingAgentsGraph.propagate
\* ------------------------------------------------------------------------

\* A key the dict does not hold.
Missing == [tag |-> "missing"]

\* A dict held under a debate key: its "judge_decision" entry (Missing when
\* the dict has none) and whether it holds any other entry.
Dict(judge, others) == [tag |-> "dict", judge |-> judge, others |-> others]

\* bool(v): None and "" are falsy, and so is a dict with no entry.
Truthy(v) ==
    CASE v.tag = "str" -> v.s # <<>>
      [] v.tag = "dict" -> v.others \/ v.judge.tag # "missing"
      [] OTHER -> FALSE

\* dict.get(key) and dict.get(key, default)
Get(d, key) == IF d[key].tag = "missing" THEN PyNone ELSE d[key]
GetJudge(d, default) == IF d.judge.tag = "missing" THEN default ELSE d.judge

\* hasattr(v, 'get'): of the values modelled only a dict has one.
HasAttrGet(v) == v.tag = "dict"

AnalystKeys == <<"market_report", "sentiment_report", "news_report", "fundamentals_report">>
TextKeys == {"market_report", "sentiment_report", "news_report", "fundamentals_report",
             "trader_investment_plan", "final_trade_decision"}
DebateKeys == {"investment_debate_state", "risk_debate_state"}
Keys == TextKeys \cup DebateKeys

\* One sample body per section; between them they hold every reserved
\* character and every kind of irregular whitespace.
SampleText(key) ==
    CASE key = "market_report" ->
           <<"S", "t", "r", "o", "n", "g", " ", "u", "p", "t", "r", "e", "n", "d">>
      [] key = "sentiment_report" -> <<"u", "p", "\n", "\t", "&", " ", "u", "p">>
      [] key = "news_report" -> <<"Q", "3", " ", "<", "b", "e", "a", "t", ">">>
      [] key = "fundamentals_report" -> <<"P", "/", "E", " ", ">", " ", " ", "3", "0">>
      [] key = "trader_investment_plan" -> <<" ", "b", "u", "y", "\t", "d", "i", "p", " ">>
      [] key = "final_trade_decision" -> <<"S", "E", "L", "L", " ", "<", "n", "o", "w", ">">>
      [] key = "investment_debate_state" -> <<"B", "u", "l", "l", " ", ">", " ", "B", "e", "a", "r">>
      [] key = "risk_debate_state" -> <<"r", "i", "s", "k", " ", "&", " ", "h", "o", "l", "d">>

\* The value a key holds when its section is there in full.
Full(key) ==
    IF key \in TextKeys THEN Str(SampleText(key))
    ELSE Dict(Str(SampleText(key)), TRUE)

\* The other values a key may hold: None, "", and for a debate key the empty
\* dict, a dict with no or an empty judge decision, and a str (no 'get').
Odd(key) ==
    IF key \in TextKeys THEN <<PyNone, Str(<<>>)>>
    ELSE <<PyNone, Dict(Missing, FALSE), Dict(Missing, TRUE), Dict(Str(<<>>), TRUE),
           Str(<<"n", "/", "a">>)>>

\* Most keys of one Analysis Result that hold an odd value.
MaxOdd == 1

\* The Analysis Result whose keys in full hold their section, whose keys in
\* odd hold the odd value chosen for them, and which lacks every other key.
FinalState(full, odd, choice) ==
    [k \in Keys |-> IF k \in odd THEN Odd(k)[choice[k]]
                    ELSE IF k \in full THEN Full(k) ELSE Missing]

\* The sets of keys that may hold odd values together, and the ways to
\* choose an odd value for each key of such a set.
OddSets == {o \in SUBSET Keys : Cardinality(o) <= MaxOdd}
OddChoices(odd) == {c \in [odd -> 1..5] : \A k \in odd : c[k] <= Len(Odd(k))}

\* The final decision string propagate returns beside the state.
Decisions == {<<"B", "U", "Y">>, <<"S", "&", "P", " ", "<", "5">>}

NoFinalState == [k \in Keys |-> Missing]

\* ------------------------------------------------------------------------
\* TradingReportGenerator
\* ------------------------------------------------------------------------

LowerCase == <<"a", "b", "c", "d", "e", "f", "g", "h", "i", "j", "k", "l", "m",
               "n", "o", "p", "q", "r", "s", "t", "u", "v", "w", "x", "y", "z">>
UpperCase == <<"A", "B", "C", "D", "E", "F", "G", "H", "I", "J", "K", "L", "M",
               "N", "O", "P", "Q", "R", "S", "T", "U", "V", "W", "X", "Y", "Z">>

\* str.upper(): a lower-case letter becomes its capital, the rest stays.
UpperChar(c) ==
    IF \E i \in 1..Len(LowerCase) : LowerCase[i] = c
    THEN UpperCase[CHOOSE i \in 1..Len(LowerCase) : LowerCase[i] = c]
    ELSE c
Upper(s) == [i \in 1..Len(s) |-> UpperChar(s[i])]

\* TradingReportGenerator.__init__: the fields the report reads.
NewGenerator(stock_symbol, analysis_date, today_str) ==
    [stock_symbol |-> Upper(stock_symbol),
     analysis_date |-> IF Truthy(analysis_date) THEN analysis_date.s ELSE today_str]

NoGenerator == [stock_symbol |-> <<>>, analysis_date |-> <<>>]

\* datetime.now().strftime("%Y-%m-%d %H:%M:%S") at the time of the run.
GeneratedOn == <<"2", "0", "2", "4", "-", "1", "2", "-", "0", "1", " ",
                 "0", "9", ":", "3", "0", ":", "0", "0">>

\* The flowables of the story.  lit is text the generator itself writes,
\* text is text that comes from src (an argument or a key of final_state).
Paragraph(lit, text_, style, src) ==
    [kind |-> "Paragraph", lit |-> lit, text |-> text_, style |-> style, src |-> src,
     rows |-> <<>>, height |-> 0]
Heading(lit, style, src) == Paragraph(lit, <<>>, style, src)
Spacer(height) ==
    [kind |-> "Spacer", lit |-> "", text |-> <<>>, style |-> "", src |-> "",
     rows |-> <<>>, height |-> height]
PageBreak ==
    [kind |-> "PageBreak", lit |-> "", text |-> <<>>, style |-> "", src |-> "",
     rows |-> <<>>, height |-> 0]
Table(rows) ==
    [kind |-> "Table", lit |-> "", text |-> <<>>, style |-> "", src |-> "summary",
     rows |-> rows, height |-> 0]

\* A summary table that leaves the decision row out.
SummaryTableNoDecision(self, decision_) ==
    Table(<<[label |-> "Stock Symbol", value |-> self.stock_symbol, src |-> "stock_symbol"],
            [label |-> "Analysis Date", value |-> self.analysis_date, src |-> "analysis_date"],
            [label |-> "Generated On", value |-> GeneratedOn, src |-> "now"]>>)

\* TradingReportGenerator._create_summary_table
_create_summary_table(self, decision_) ==
    Table(<<[label |-> "Stock Symbol", value |-> self.stock_symbol, src |-> "stock_symbol"],
            [label |-> "Analysis Date", value |-> self.analysis_date, src |-> "analysis_date"],
            [label |-> "Final Decision", value |-> decision_, src |-> "decision"],
            [label |-> "Generated On", value |-> GeneratedOn, src |-> "now"]>>)

B_OPEN == <<"<", "b", ">">>
B_CLOSE == <<"<", "/", "b", ">">>

\* generate_pdf_report, lines 201-215: title, summary table, decision block.
FixedHead(self, final_state_, decision_) ==
    <<Paragraph("TradingAgents Analysis Report: ", self.stock_symbol, "CustomTitle",
                "stock_symbol"),
      Spacer(20),
      Heading("Executive Summary", "SectionHeader", "summary"),
      _create_summary_table(self, decision_),
      Spacer(20),
      Heading("FINAL TRADING DECISION", "SectionHeader", "decision"),
      Paragraph("", B_OPEN \o decision_ \o B_CLOSE, "Decision", "decision"),
      Spacer(20)>>

\* A text section that is written whether or not its field holds anything.
TextSectionAlways(final_state_, key, title) ==
    <<Heading(title, "SectionHeader", key),
      Paragraph("", _clean_text_for_pdf(Get(final_state_, key)), "Normal", key),
      Spacer(15)>>

\* generate_pdf_report: one "if final_state.get(key):" block of a text field.
TextSection(final_state_, key, title) ==
    IF Truthy(Get(final_state_, key))
    THEN <<Heading(title, "SectionHeader", key),
           Paragraph("", _clean_text_for_pdf(final_state_[key]), "Normal", key),
           Spacer(15)>>
    ELSE <<>>

\* generate_pdf_report: the block of a debate state (lines 248-259, 268-279).
DebateSection(final_state_, key, title, subtitle) ==
    IF Truthy(Get(final_state_, key))
    THEN <<Heading(title, "SectionHeader", key)>> \o
         (IF HasAttrGet(final_state_[key]) /\
             Truthy(GetJudge(final_state_[key], Str(<<>>)))
          THEN <<Heading(subtitle, "SubsectionHeader", key),
                 Paragraph("", _clean_text_for_pdf(GetJudge(final_state_[key], Str(<<>>))),
                           "Normal", key),
                 Spacer(10)>>
          ELSE <<>>)
    ELSE <<>>

\* generate_pdf_report: the final section (lines 281-285) has no spacer after it.
FinalSection(final_state_) ==
    LET s == TextSection(final_state_, "final_trade_decision", "Detailed Final Trade Decision")
    IN IF s = <<>> THEN s ELSE SubSeq(s, 1, 2)

\* generate_pdf_report, lines 217-243: the four analyst reports.
AnalystSections(final_state_) ==
    TextSection(final_state_, "market_report", "Market Analysis Report") \o
    TextSection(final_state_, "sentiment_report", "Sentiment Analysis Report") \o
    TextSection(final_state_, "news_report", "News Analysis Report") \o
    TextSection(final_state_, "fundamentals_report", "Fundamentals Analysis Report")

\* generate_pdf_report, lines 248-285: the sections after the page break.
DetailSections(final_state_) ==
    DebateSection(final_state_, "investment_debate_state", "Investment Debate Summary",
                  "Judge Decision:") \o
    TextSection(final_state_, "trader_investment_plan", "Trader Investment Plan") \o
    DebateSection(final_state_, "risk_debate_state", "Risk Assessment",
                  "Risk Management Decision:") \o
    FinalSection(final_state_)

\* A story whose page break comes after the detailed sections.
BuildStoryBreakLast(self, final_state_, decision_) ==
    FixedHead(self, final_state_, decision_) \o AnalystSections(final_state_) \o
    DetailSections(final_state_) \o <<PageBreak>>

\* generate_pdf_report, lines 198-285: the story handed to doc.build.
BuildStory(self, final_state_, decision_) ==
    FixedHead(self, final_state_, decision_) \o AnalystSections(final_state_) \o
    <<PageBreak>> \o DetailSections(final_state_)

PREFIX == <<"t", "r", "a", "d", "i", "n", "g", "_", "r", "e", "p", "o", "r", "t", "_">>
SUFFIX == <<".", "p", "d", "f">>

\* A default name that puts the date before the symbol.
DefaultFilenameSwapped(self) ==
    PREFIX \o self.analysis_date \o <<"_">> \o self.stock_symbol \o SUFFIX

\* f"trading_report_{self.stock_symbol}_{self.analysis_date}.pdf"
DefaultFilename(self) ==
    PREFIX \o self.stock_symbol \o <<"_">> \o self.analysis_date \o SUFFIX

\* generate_pdf_report, lines 185-186: only None takes the default name.
ResolveFilename(self, output_filename) ==
    IF output_filename.tag = "None" THEN DefaultFilename(self) ELSE output_filename.s

\* generate_pdf_report, lines 182-290, when doc.build succeeds: the file
\* written (and returned) and the story built into it.
generate_pdf_report(self, final_state_, decision_, output_filename) ==
    [output_file |-> ResolveFilename(self, output_filename),
     story |-> BuildStory(self, final_state_, decision_)]

\* ------------------------------------------------------------------------
\* The scripts' configuration
\* ------------------------------------------------------------------------

\* generate_report.py, lines 16-17 and 20, 25; example_usage.py, lines 23, 26, 29, 34.
GR_FINNHUB_PLACEHOLDER == "your_finnhub_api_key_here"
GR_OPENAI_PLACEHOLDER == "your_openai_api_key_here"
EU_FINNHUB_PLACEHOLDER == "your_actual_finnhub_api_key_here"
EU_OPENAI_PLACEHOLDER == "your_actual_openai_api_key_here"

\* The values the four key constants may have been edited to.
KeyConfigs ==
    [gr_finnhub : {GR_FINNHUB_PLACEHOLDER, "fh-key-1"},
     gr_openai : {GR_OPENAI_PLACEHOLDER, "sk-key-1"},
     eu_finnhub : {EU_FINNHUB_PLACEHOLDER, "fh-key-2"},
     eu_openai : {EU_OPENAI_PLACEHOLDER, "sk-key-2"}]

UNSET == "<unset>"
NoEnv == [FINNHUB_API_KEY |-> UNSET, OPENAI_API_KEY |-> UNSET]

AAPL == <<"A", "A", "P", "L">>
NVDA == <<"N", "V", "D", "A">>
DATE_2024_12_01 == <<"2", "0", "2", "4", "-", "1", "2", "-", "0", "1">>
DATE_2025_07_05 == <<"2", "0", "2", "5", "-", "0", "7", "-", "0", "5">>
TODAY == <<"2", "0", "2", "6", "-", "1", "1", "-", "0", "6">>

\* generate_report.main, lines 297-298; example_usage.main, lines 66-67.
ScriptSymbol(s) == IF s = "generate_report" THEN AAPL ELSE NVDA
ScriptDate(s) == IF s = "generate_report" THEN DATE_2024_12_01 ELSE DATE_2025_07_05

\* ------------------------------------------------------------------------
\* State
\* ------------------------------------------------------------------------

VARIABLES
    text,         \* the sanitizer's argument (the sanitizer on its own)
    cleaned,      \* the sanitizer's return value
    cstep,        \* "input" before the call, "done" after it, "idle" elsewhere
    script,       \* the entry point run: "generate_report", "example_usage", or "api"
    keys,         \* the key constants written in the two source files
    env,          \* os.environ: FINNHUB_API_KEY and OPENAI_API_KEY
    pc,           \* where the process is
    exitCode,     \* the process's exit status once pc = "exited" (-1 before)
    log,          \* what the process has done so far, in order
    today,        \* date.today().strftime("%Y-%m-%d")
    generator,    \* the TradingReportGenerator's stock_symbol and analysis_date
    final_state,  \* the Analysis Result run_analysis returned
    decision,     \* the decision string run_analysis returned
    output_arg,   \* the output_filename argument of generate_pdf_report
    story,        \* the story doc.build wrote to the file
    output_file,  \* what generate_pdf_report returned
    failure,      \* the step that raised, or "none"
    verifier      \* test_setup.py: what its checks found and did (see NoVerifier)

cleanVars == <<text, cleaned, cstep>>
runVars == <<script, keys, env, pc, exitCode, log, today, generator, final_state,
             decision, output_arg, story, output_file, failure, verifier>>
vars == <<text, cleaned, cstep, script, keys, env, pc, exitCode, log, today, generator,
          final_state, decision, output_arg, story, output_file, failure, verifier>>

\* test_setup.py before its first check: the packages that cannot be imported
\* (missing), main's results list with how each check ended (how: "returned"
\* or "raised"), the providers a request was sent to (requests), how each
\* provider's test in test_api_connectivity ended (finnhub, openai), and the
\* PASS/FAIL lines of the summary once printed.
NoVerifier ==
    [missing |-> {}, results |-> <<>>, how |-> <<>>, requests |-> <<>>,
     finnhub |-> "not_run", openai |-> "not_run", summary |-> <<>>]

\* The process's objects before there are any (and after it has exited).
NoObjects ==
    /\ generator = NoGenerator
    /\ final_state = NoFinalState
    /\ decision = <<>>
    /\ output_arg = PyNone
    /\ story = <<>>
    /\ output_file = <<>>

CleanIdle == text = PyNone /\ cleaned = <<>> /\ cstep = "idle"

\* ------------------------------------------------------------------------
\* The sanitizer as a one-step machine
\* ------------------------------------------------------------------------

CleanInit ==
    /\ text \in CleanInputs
    /\ cleaned = <<>>
    /\ cstep = "input"
    /\ script = "none" /\ keys \in {[gr_finnhub |-> "fh-key-1", gr_openai |-> "sk-key-1",
                                      eu_finnhub |-> "fh-key-2", eu_openai |-> "sk-key-2"]}
    /\ env = NoEnv /\ pc = "none" /\ exitCode = -1 /\ log = <<>> /\ today = TODAY
    /\ failure = "none"
    /\ NoObjects
    /\ verifier = NoVerifier

CleanTextForPdf ==
    /\ cstep = "input"
    /\ cleaned' = _clean_text_for_pdf(text)
    /\ cstep' = "done"
    /\ UNCHANGED <<text, runVars>>

CleanNext == CleanTextForPdf

SpecClean == CleanInit /\ [][CleanNext]_vars

\* ------------------------------------------------------------------------
\* Reading markup back
\* ------------------------------------------------------------------------

IsPrefix(p, s) == Len(p) <= Len(s) /\ SubSeq(s, 1, Len(p)) = p
Drop(s, n) == SubSeq(s, n + 1, Len(s))
Chars(s) == {s[i] : i \in 1..Len(s)}
Count(s, c) == Cardinality({i \in 1..Len(s) : s[i] = c})
NonWs(s) == SelectSeq(s, LAMBDA c : c \notin Whitespace)

RECURSIVE Unescape(_)
\* What a markup reader makes of escaped text: each entity read once, left to right.
Unescape(s) ==
    IF s = <<>> THEN <<>>
    ELSE IF IsPrefix(AMP, s) THEN <<"&">> \o Unescape(Drop(s, Len(AMP)))
    ELSE IF IsPrefix(LT, s) THEN <<"<">> \o Unescape(Drop(s, Len(LT)))
    ELSE IF IsPrefix(GT, s) THEN <<">">> \o Unescape(Drop(s, Len(GT)))
    ELSE <<Head(s)>> \o Unescape(Tail(s))

\* No '<' or '>' is left, and every '&' opens one of the three entities.
NoRawReserved(s) ==
    /\ "<" \notin Chars(s)
    /\ ">" \notin Chars(s)
    /\ \A i \in 1..Len(s) :
         s[i] = "&" => \/ IsPrefix(AMP, Drop(s, i - 1))
                       \/ IsPrefix(LT, Drop(s, i - 1))
                       \/ IsPrefix(GT, Drop(s, i - 1))

\* ------------------------------------------------------------------------
\* The sanitizer's claims (under SpecClean)
\* ------------------------------------------------------------------------

\* C1: for every input that holds '&', '<' or '>', the sanitizer's output has
\* no raw '<' or '>', every '&' in it opens an entity, it holds exactly one
\* entity per reserved character of the input (none is escaped twice), and
\* read back it gives the input's non-whitespace characters in their order.
C1_ReservedEscapedOnce ==
    (cstep = "done" /\ IsStr(text) /\ Chars(text.s) \cap Reserved # {}) =>
        /\ NoRawReserved(cleaned)
        /\ Count(cleaned, "&") = Cardinality({i \in 1..Len(text.s) : text.s[i] \in Reserved})
        /\ NonWs(Unescape(cleaned)) = NonWs(text.s)

\* An input with all three reserved characters and whitespace has been sanitized.
C1_Witness ==
    /\ cstep = "done"
    /\ IsStr(text)
    /\ Reserved \subseteq Chars(text.s)
    /\ Chars(text.s) \cap Whitespace # {}
    /\ Len(cleaned) > Len(text.s)

\* C2: whatever the input (None, empty, tabs, newlines, runs of spaces, leading
\* or trailing whitespace), the output has no two spaces in a row and no
\* whitespace character but the space.
C2_WhitespaceCollapsed ==
    cstep = "done" =>
        /\ \A i \in 1..Len(cleaned) : cleaned[i] \notin Whitespace \ {" "}
        /\ \A i \in 1..(Len(cleaned) - 1) : ~(cleaned[i] = " " /\ cleaned[i + 1] = " ")

\* An input with a tab and two whitespace characters in a row between two
\* words has been sanitized to words one space apart.
C2_Witness ==
    /\ cstep = "done"
    /\ IsStr(text)
    /\ "\t" \in Chars(text.s)
    /\ \E i \in 1..(Len(text.s) - 1) : text.s[i] \in Whitespace /\ text.s[i + 1] \in Whitespace
    /\ " " \in Chars(cleaned)

\* ------------------------------------------------------------------------
\* The entry points: generate_report.py and example_usage.py as processes
\* ------------------------------------------------------------------------

Init ==
    /\ CleanIdle
    /\ script \in {"generate_report", "example_usage"}
    /\ keys \in KeyConfigs
    \* generate_report.py run as the script never reads example_usage's constants.
    /\ script = "generate_report" =>
          keys.eu_finnhub = EU_FINNHUB_PLACEHOLDER /\ keys.eu_openai = EU_OPENAI_PLACEHOLDER
    /\ env = NoEnv
    /\ pc = "gr_validate"
    /\ exitCode = -1
    /\ log = <<>>
    /\ today = TODAY
    /\ failure = "none"
    /\ NoObjects
    /\ verifier = NoVerifier

\* sys.exit(code), or the interpreter ending on an uncaught exception: the
\* process is gone and its objects with it; os.environ dies with it too, but
\* is kept here as the process last saw it.
Exit(code, why, events) ==
    /\ pc' = "exited"
    /\ exitCode' = code
    /\ failure' = why
    /\ log' = log \o events
    /\ generator' = NoGenerator
    /\ final_state' = NoFinalState
    /\ decision' = <<>>
    /\ output_arg' = PyNone
    /\ UNCHANGED <<script, keys, env, today, story, output_file, cleanVars, verifier>>

\* A handler that reports the error and lets main go on to its next step.
MainExceptContinue(step) ==
    [exits |-> FALSE, code |-> -1,
     pc |-> IF step = "construct" THEN "run_analysis" ELSE "generate"]

\* main's "except Exception as e: ...; sys.exit(1)" (generate_report.py lines
\* 323-325, example_usage.py lines 111-118), whichever step raised.
MainExcept(step) == [exits |-> TRUE, code |-> 1, pc |-> "exited"]

\* A step of main's try block raised: control goes to the handler.
Raise(step, events) ==
    LET h == MainExcept(step)
    IN IF h.exits
       THEN Exit(h.code, step, events)
       ELSE /\ pc' = h.pc
            /\ failure' = step
            /\ log' = log \o events
            /\ UNCHANGED <<script, keys, env, today, exitCode, generator, final_state,
                           decision, output_arg, story, output_file, cleanVars, verifier>>

\* generate_report.py, lines 19-31, run as the script or at example_usage's
\* "from generate_report import ..." (line 12): validate the keys, then export them.
GrValidateKeys ==
    /\ pc = "gr_validate"
    /\ IF keys.gr_finnhub = GR_FINNHUB_PLACEHOLDER \/ keys.gr_openai = GR_OPENAI_PLACEHOLDER
       THEN Exit(1, "config", <<"exit">>)
       ELSE /\ env' = [FINNHUB_API_KEY |-> keys.gr_finnhub, OPENAI_API_KEY |-> keys.gr_openai]
            /\ log' = Append(log, "setenv")
            /\ pc' = "gr_imports"
            /\ UNCHANGED <<script, keys, today, exitCode, failure, generator, final_state,
                           decision, output_arg, story, output_file, cleanVars, verifier>>

\* generate_report.py, lines 33-48: the framework and reportlab are imported.
\* A missing tradingagents is an uncaught ImportError (status 1); a missing
\* reportlab is sys.exit(1).  Run as the script, main() follows; imported,
\* control returns to example_usage, whose main() starts with setup_api_keys.
GrImports ==
    /\ pc = "gr_imports"
    /\ \/ /\ pc' = IF script = "generate_report" THEN "construct" ELSE "eu_setup"
          /\ log' = Append(log, "import_framework")
          /\ UNCHANGED <<script, keys, env, today, exitCode, failure, generator, final_state,
                         decision, output_arg, story, output_file, cleanVars, verifier>>
       \/ Exit(1, "import", <<"exit">>)

\* A setup_api_keys that validates its keys and leaves os.environ as the
\* import of generate_report wrote it.
EuSetupApiKeysNoExport ==
    /\ pc = "eu_setup"
    /\ script = "example_usage"
    /\ IF keys.eu_finnhub = EU_FINNHUB_PLACEHOLDER \/ keys.eu_openai = EU_OPENAI_PLACEHOLDER
       THEN Exit(1, "config", <<"exit">>)
       ELSE /\ log' = Append(log, "setenv")
            /\ pc' = "construct"
            /\ UNCHANGED <<script, keys, env, today, exitCode, failure, generator, final_state,
                           decision, output_arg, story, output_file, cleanVars, verifier>>

\* example_usage.py, lines 15-44 and 52-62: setup_api_keys, main's exit when it
\* answers False, and the second import of generate_report (already loaded).
EuSetupApiKeys ==
    /\ pc = "eu_setup"
    /\ script = "example_usage"
    /\ IF keys.eu_finnhub = EU_FINNHUB_PLACEHOLDER \/ keys.eu_openai = EU_OPENAI_PLACEHOLDER
       THEN Exit(1, "config", <<"exit">>)
       ELSE /\ env' = [FINNHUB_API_KEY |-> keys.eu_finnhub, OPENAI_API_KEY |-> keys.eu_openai]
            /\ log' = Append(log, "setenv")
            /\ pc' = "construct"
            /\ UNCHANGED <<script, keys, today, exitCode, failure, generator, final_state,
                           decision, output_arg, story, output_file, cleanVars, verifier>>

\* main: generator = TradingReportGenerator(stock_symbol=..., analysis_date=...);
\* TradingAgentsGraph(debug=True, config=...) (line 74) may raise.
Construct ==
    /\ pc = "construct"
    /\ \/ /\ generator' = NewGenerator(ScriptSymbol(script), Str(ScriptDate(script)), today)
          /\ log' = Append(log, "construct")
          /\ pc' = "run_analysis"
          /\ UNCHANGED <<script, keys, env, today, exitCode, failure, final_state,
                         decision, output_arg, story, output_file, cleanVars, verifier>>
       \/ Raise("construct", <<"construct", "exit">>)

\* main: final_state, decision = generator.run_analysis(); run_analysis (lines
\* 126-142) calls propagate once and re-raises what it raises.
RunAnalysis ==
    /\ pc = "run_analysis"
    /\ \/ \E odd \in OddSets, d \in Decisions :
            \E choice \in OddChoices(odd), full \in SUBSET (Keys \ odd) :
              /\ final_state' = FinalState(full, odd, choice)
              /\ decision' = d
              /\ log' = Append(log, "propagate")
              /\ pc' = "generate"
              /\ UNCHANGED <<script, keys, env, today, exitCode, failure, generator,
                             output_arg, story, output_file, cleanVars, verifier>>
       \/ Raise("run_analysis", <<"propagate", "exit">>)

\* main: output_file = generator.generate_pdf_report(final_state, decision);
\* doc.build(story) (line 288) writes the file or raises.
GeneratePdfReport ==
    /\ pc = "generate"
    /\ \/ LET r == generate_pdf_report(generator, final_state, decision, PyNone)
          IN /\ story' = r.story
             /\ output_file' = r.output_file
             /\ output_arg' = PyNone
             /\ log' = Append(log, "generate")
             /\ pc' = "report_done"
             /\ UNCHANGED <<script, keys, env, today, exitCode, failure, generator,
                            final_state, decision, cleanVars, verifier>>
       \/ Raise("generate_pdf_report", <<"generate", "exit">>)

\* main prints its closing lines and returns: the interpreter ends with status 0.
MainReturn ==
    /\ pc = "report_done"
    /\ Exit(0, failure, <<"exit">>)

Next ==
    \/ GrValidateKeys
    \/ GrImports
    \/ EuSetupApiKeys
    \/ Construct
    \/ RunAnalysis
    \/ GeneratePdfReport
    \/ MainReturn

Spec == Init /\ [][Next]_vars

\* ------------------------------------------------------------------------
\* TradingReportGenerator called by a client of the module (as
\* example_usage.generate_multiple_reports does), with arguments of its choice
\* ------------------------------------------------------------------------

ApiSymbols == {AAPL, <<"n", "v", "d", "a">>, <<"T", "s", "l", "a">>}
ApiDates == {PyNone, Str(<<>>), Str(DATE_2024_12_01), Str(DATE_2025_07_05)}
ApiOutputs == {PyNone, Str(<<>>), Str(<<"o", "u", "t", ".", "p", "d", "f">>)}
ApiFinalStates ==
    {FinalState({}, {}, <<>>),
     FinalState(Keys, {}, <<>>),
     FinalState({"market_report"}, {"sentiment_report"}, [k \in {"sentiment_report"} |-> 1])}

\* generate_report has been imported: its keys were real and are exported.
ApiInit ==
    /\ CleanIdle
    /\ script = "api"
    /\ keys \in {k \in KeyConfigs :
                   /\ k.gr_finnhub # GR_FINNHUB_PLACEHOLDER
                   /\ k.gr_openai # GR_OPENAI_PLACEHOLDER
                   /\ k.eu_finnhub = EU_FINNHUB_PLACEHOLDER
                   /\ k.eu_openai = EU_OPENAI_PLACEHOLDER}
    /\ env = [FINNHUB_API_KEY |-> keys.gr_finnhub, OPENAI_API_KEY |-> keys.gr_openai]
    /\ pc = "api_new"
    /\ exitCode = -1
    /\ log = <<"setenv", "import_framework">>
    /\ today = TODAY
    /\ failure = "none"
    /\ NoObjects
    /\ verifier = NoVerifier

\* TradingReportGenerator(stock_symbol, analysis_date), lines 54-78.
ApiConstruct ==
    /\ pc = "api_new"
    /\ \/ \E sym \in ApiSymbols, date \in ApiDates :
            /\ generator' = NewGenerator(sym, date, today)
            /\ pc' = "api_ready"
            /\ failure' = failure
       \/ /\ pc' = "api_raised"
          /\ failure' = "construct"
          /\ UNCHANGED generator
    /\ log' = Append(log, "construct")
    /\ UNCHANGED <<script, keys, env, today, exitCode, final_state, decision, output_arg,
                   story, output_file, cleanVars, verifier>>

\* generator.generate_pdf_report(final_state, decision, output_filename), lines 182-290.
ApiGeneratePdfReport ==
    /\ pc = "api_ready"
    /\ \E fs \in ApiFinalStates, d \in Decisions, out \in ApiOutputs :
         /\ final_state' = fs
         /\ decision' = d
         /\ output_arg' = out
         /\ \/ LET r == generate_pdf_report(generator, fs, d, out)
               IN /\ story' = r.story
                  /\ output_file' = r.output_file
                  /\ pc' = "api_returned"
                  /\ failure' = failure
            \/ /\ pc' = "api_raised"
               /\ failure' = "generate_pdf_report"
               /\ UNCHANGED <<story, output_file>>
    /\ log' = Append(log, "generate")
    /\ UNCHANGED <<script, keys, env, today, exitCode, generator, cleanVars, verifier>>

ApiNext == ApiConstruct \/ ApiGeneratePdfReport

SpecApi == ApiInit /\ [][ApiNext]_vars

\* ------------------------------------------------------------------------
\* Reading the document
\* ------------------------------------------------------------------------

\* generate_pdf_report has returned to main, which still holds its arguments.
Reported == pc = "report_done"

\* A field that is there and not empty: not missing, not None, not "", not {}.
PresentNonEmpty(v) ==
    \/ v.tag = "str" /\ Len(v.s) > 0
    \/ v.tag = "dict" /\ (v.others \/ v.judge.tag # "missing")

\* The heading each optional section is written under.
SectionTitle(key) ==
    CASE key = "market_report" -> "Market Analysis Report"
      [] key = "sentiment_report" -> "Sentiment Analysis Report"
      [] key = "news_report" -> "News Analysis Report"
      [] key = "fundamentals_report" -> "Fundamentals Analysis Report"
      [] key = "investment_debate_state" -> "Investment Debate Summary"
      [] key = "trader_investment_plan" -> "Trader Investment Plan"
      [] key = "risk_debate_state" -> "Risk Assessment"
      [] key = "final_trade_decision" -> "Detailed Final Trade Decision"

HasHeading(key) ==
    \E i \in 1..Len(story) :
        /\ story[i].kind = "Paragraph"
        /\ story[i].style = "SectionHeader"
        /\ story[i].lit = SectionTitle(key)

\* Any flowable at all that was written for the section.
HasAnythingOf(key) == \E i \in 1..Len(story) : story[i].src = key

IsDecisionBlock(e) == e.kind = "Paragraph" /\ e.style = "Decision"

\* The place of a flowable in the assembler's fixed order; 0 for the title,
\* the spacers and anything else the order does not name.
Rank(e) ==
    CASE e.kind = "PageBreak" -> 7
      [] e.kind = "Spacer" -> 0
      [] e.src = "summary" -> 1
      [] e.src = "decision" -> 2
      [] e.src = "market_report" -> 3
      [] e.src = "sentiment_report" -> 4
      [] e.src = "news_report" -> 5
      [] e.src = "fundamentals_report" -> 6
      [] e.src = "investment_debate_state" -> 8
      [] e.src = "trader_investment_plan" -> 9
      [] e.src = "risk_debate_state" -> 10
      [] e.src = "final_trade_decision" -> 11
      [] OTHER -> 0

\* ------------------------------------------------------------------------
\* The assembler's claims (under Spec)
\* ------------------------------------------------------------------------

\* C3: for every Analysis Result and each of the eight optional sections, the
\* section's heading is in the document if and only if its field is present
\* and non-empty, and a section whose field is missing, None or empty puts
\* nothing at all into the document.
C3_HeadingIffPresent ==
    Reported =>
        \A key \in Keys :
            /\ HasHeading(key) <=> PresentNonEmpty(final_state[key])
            /\ ~PresentNonEmpty(final_state[key]) => ~HasAnythingOf(key)

\* The spec's example: market_report present, sentiment_report None.
C3_Witness ==
    /\ Reported
    /\ final_state["market_report"].tag = "str"
    /\ final_state["sentiment_report"].tag = "None"
    /\ HasHeading("market_report")
    /\ ~HasHeading("sentiment_report")

\* The text the analysis framework supplied to a paragraph: the decision
\* block's text without the <b>...</b> the assembler wraps it in.
FrameworkText(e) ==
    IF IsDecisionBlock(e)
    THEN SubSeq(e.text, Len(B_OPEN) + 1, Len(e.text) - Len(B_CLOSE))
    ELSE e.text

\* C4: every paragraph that carries text of the Analysis Result, the decision
\* block included, carries it sanitized: no raw '<' or '>' and no '&' that
\* does not open an entity.
C4_AllFrameworkTextSanitized ==
    Reported =>
        \A i \in 1..Len(story) :
            (story[i].kind = "Paragraph" /\ story[i].src \in Keys \cup {"decision"}) =>
                NoRawReserved(FrameworkText(story[i]))

\* C5: when every optional section is absent the document is still built and
\* is not empty; of the sections it holds the summary (with its table) and
\* the decision block, and nothing of any optional section.
C5_AllAbsentStillSummaryAndDecision ==
    (Reported /\ \A key \in Keys : ~PresentNonEmpty(final_state[key])) =>
        /\ story # <<>>
        /\ Cardinality({i \in 1..Len(story) : story[i].kind = "Table"}) = 1
        /\ Cardinality({i \in 1..Len(story) : IsDecisionBlock(story[i])}) = 1
        /\ {story[i].src : i \in {j \in 1..Len(story) : Rank(story[j]) \notin {0, 7}}}
             = {"summary", "decision"}
        /\ \A key \in Keys : ~HasAnythingOf(key) /\ ~HasHeading(key)

\* A report has been built from an Analysis Result with no optional section,
\* one of whose fields is there but empty.
C5_Witness ==
    /\ Reported
    /\ \A key \in Keys : ~PresentNonEmpty(final_state[key])
    /\ \E key \in Keys : final_state[key].tag # "missing"
    /\ Len(story) > 0

\* C6: whatever sections are present, the flowables appear in the fixed order
\* summary table, decision block, market, sentiment, news, fundamentals, page
\* break, debate summary, trader plan, risk assessment, final detail; the
\* summary comes before everything else the order names, and the one page
\* break comes after every analyst report and before every later section.
C6_FixedOrder ==
    Reported =>
        /\ \A i, j \in 1..Len(story) :
             (i < j /\ Rank(story[i]) # 0 /\ Rank(story[j]) # 0) =>
                 Rank(story[i]) <= Rank(story[j])
        /\ Cardinality({i \in 1..Len(story) : story[i].kind = "PageBreak"}) = 1
        /\ \E t \in 1..Len(story) :
             /\ story[t].kind = "Table"
             /\ \A i \in 1..Len(story) : Rank(story[i]) > 1 => t < i
        /\ \E b \in 1..Len(story) :
             /\ story[b].kind = "PageBreak"
             /\ \A i \in 1..Len(story) :
                  /\ Rank(story[i]) \in 3..6 => i < b
                  /\ Rank(story[i]) > 7 => b < i

\* A report with an analyst report and a later section present and others absent.
C6_Witness ==
    /\ Reported
    /\ HasHeading("news_report")
    /\ HasHeading("risk_debate_state")
    /\ ~HasHeading("market_report")
    /\ ~HasHeading("trader_investment_plan")

\* The places where the decision argument is rendered: rows of the summary
\* table and paragraphs whose text is taken from it.
DecisionRows ==
    {<<i, j>> \in (1..Len(story)) \X (1..4) :
        /\ story[i].kind = "Table"
        /\ j <= Len(story[i].rows)
        /\ story[i].rows[j].src = "decision"}
DecisionParagraphs ==
    {i \in 1..Len(story) :
        story[i].kind = "Paragraph" /\ story[i].src = "decision" /\ story[i].text # <<>>}

\* C7: the decision string is rendered exactly twice, whichever optional
\* sections are present: once as the 'Final Decision' row of the summary table
\* and once as the highlighted decision block.
C7_DecisionTwice ==
    Reported =>
        /\ Cardinality(DecisionRows) = 1
        /\ Cardinality(DecisionParagraphs) = 1
        /\ \A p \in DecisionRows :
             /\ story[p[1]].rows[p[2]].label = "Final Decision"
             /\ story[p[1]].rows[p[2]].value = decision
        /\ \A i \in DecisionParagraphs :
             /\ IsDecisionBlock(story[i])
             /\ FrameworkText(story[i]) = decision

\* A report whose detailed final-trade section is present (and market absent).
C7_Witness ==
    /\ Reported
    /\ HasHeading("final_trade_decision")
    /\ ~HasHeading("market_report")
    /\ Cardinality(DecisionRows) + Cardinality(DecisionParagraphs) = 2

\* ------------------------------------------------------------------------
\* The output path (under SpecApi)
\* ------------------------------------------------------------------------

TRADING_REPORT_AAPL_2024_12_01_PDF ==
    <<"t", "r", "a", "d", "i", "n", "g", "_", "r", "e", "p", "o", "r", "t", "_",
      "A", "A", "P", "L", "_", "2", "0", "2", "4", "-", "1", "2", "-", "0", "1",
      ".", "p", "d", "f">>

\* C8: called without an output path, generate_pdf_report writes and returns
\* 'trading_report_{SYMBOL}_{DATE}.pdf' of the generator's symbol and date
\* (for AAPL and 2024-12-01 exactly trading_report_AAPL_2024-12-01.pdf);
\* called with a path, it writes and returns that path unchanged.
C8_OutputPath ==
    pc = "api_returned" =>
        /\ output_arg.tag = "None" =>
             /\ output_file = <<"t", "r", "a", "d", "i", "n", "g", "_",
                                 "r", "e", "p", "o", "r", "t", "_">>
                               \o generator.stock_symbol \o <<"_">>
                               \o generator.analysis_date \o <<".", "p", "d", "f">>
             /\ (generator.stock_symbol = AAPL /\ generator.analysis_date = DATE_2024_12_01)
                  => output_file = TRADING_REPORT_AAPL_2024_12_01_PDF
        /\ output_arg.tag = "str" => output_file = output_arg.s

\* The generator for AAPL on 2024-12-01 has written a report with no path given.
C8_Witness ==
    /\ pc = "api_returned"
    /\ output_arg.tag = "None"
    /\ generator.stock_symbol = AAPL
    /\ generator.analysis_date = DATE_2024_12_01
    /\ output_file = TRADING_REPORT_AAPL_2024_12_01_PDF

\* ------------------------------------------------------------------------
\* The entry points' claims (under Spec)
\* ------------------------------------------------------------------------

Events == {log[i] : i \in 1..Len(log)}
Times(e) == Cardinality({i \in 1..Len(log) : log[i] = e})

\* One of the keys of the script that is run is still its placeholder.
PlaceholderKey ==
    \/ /\ script = "generate_report"
       /\ keys.gr_finnhub = GR_FINNHUB_PLACEHOLDER \/ keys.gr_openai = GR_OPENAI_PLACEHOLDER
    \/ /\ script = "example_usage"
       /\ keys.eu_finnhub = EU_FINNHUB_PLACEHOLDER \/ keys.eu_openai = EU_OPENAI_PLACEHOLDER

\* C9: in either script, when a key is its placeholder the process ends with
\* status 1 and has by then neither set the environment variables, nor
\* constructed or invoked the framework (where the network calls are made).
C9_PlaceholderExitsBeforeAnything ==
    PlaceholderKey =>
        /\ Events \cap {"setenv", "construct", "propagate"} = {}
        /\ pc = "exited" => exitCode = 1

MainSteps == {"construct", "run_analysis", "generate_pdf_report"}

\* C10: a failure of construction, run_analysis or generate_pdf_report ends
\* the process at once with status 1: no step is tried twice, nothing runs
\* after the step that failed (generate_pdf_report never after a failed
\* run_analysis), and a run whose three steps all succeed ends with status 0.
C10_FailureIsTerminal ==
    /\ failure \in MainSteps =>
         /\ pc = "exited"
         /\ exitCode = 1
         /\ log[Len(log)] = "exit"
         /\ log[Len(log) - 1] =
              (CASE failure = "construct" -> "construct"
                 [] failure = "run_analysis" -> "propagate"
                 [] failure = "generate_pdf_report" -> "generate")
    /\ \A e \in {"construct", "propagate", "generate", "exit"} : Times(e) <= 1
    /\ failure = "run_analysis" => "generate" \notin Events
    /\ (pc = "exited" /\ failure = "none") =>
         /\ exitCode = 0
         /\ {"construct", "propagate", "generate"} \subseteq Events
    /\ (pc = "exited" /\ exitCode = 0) => failure = "none"

\* run_analysis has raised and the process has ended.
C10_Witness ==
    /\ pc = "exited"
    /\ failure = "run_analysis"
    /\ exitCode = 1
    /\ "propagate" \in Events


\* A paragraph of sanitized text written for the section.
HasBody(key) ==
    \E i \in 1..Len(story) :
        /\ story[i].kind = "Paragraph"
        /\ story[i].style = "Normal"
        /\ story[i].src = key
        /\ NoRawReserved(story[i].text)

\* C12: every section heading in the document is followed by the section's
\* sanitized body; a debate state without a judge decision (missing, empty,
\* or a value with no 'get') never leaves a heading with no body under it.
C12_HeadingHasBody ==
    Reported => \A key \in Keys : HasHeading(key) => HasBody(key)

\* The framework has been constructed or invoked, or is about to be.
FrameworkInvoked ==
    \/ pc \in {"construct", "run_analysis", "generate", "report_done"}
    \/ Events \cap {"construct", "propagate"} # {}

RequiredPackages == {"reportlab", "langchain_openai", "langgraph", "pandas", "yfinance",
                     "requests"}

\* main's tests list, in order, and where the process is before each of them.
TestOrder == <<"Package Imports", "TradingAgents Import", "API Keys", "API Connectivity",
               "PDF Generation">>
TestPc == <<"v_imports", "v_tradingagents", "v_api_keys", "v_connectivity", "v_pdf">>

\* What the shell may have left in each variable: nothing, an empty string,
\* generate_report.py's placeholder, or a key.
ShellEnvs ==
    [FINNHUB_API_KEY : {UNSET, "", GR_FINNHUB_PLACEHOLDER, "fh-key-1"},
     OPENAI_API_KEY : {UNSET, "", GR_OPENAI_PLACEHOLDER, "sk-key-1"}]

\* A configured-key test that lets the placeholder through.
KeyConfiguredAnyText(value, placeholder) == value # UNSET /\ value # ""

\* "key and key != placeholder" (lines 89, 109; negated at lines 63, 71):
\* os.getenv gives None for an unset variable, and None and "" are falsy.
KeyConfigured(value, placeholder) == value # UNSET /\ value # "" /\ value # placeholder

\* test_imports: False when any required package raises ImportError.
test_imports(missing) == RequiredPackages \cap missing = {}

\* test_api_keys
test_api_keys(env_) ==
    /\ KeyConfigured(env_.FINNHUB_API_KEY, GR_FINNHUB_PLACEHOLDER)
    /\ KeyConfigured(env_.OPENAI_API_KEY, GR_OPENAI_PLACEHOLDER)

\* test_api_connectivity, given what each provider would answer if asked:
\* how each provider's test ended, the requests sent, and the value returned.
\* A failed "import requests" or "from langchain_openai import ChatOpenAI" is
\* caught by the same "except Exception" as a failed request.
test_api_connectivity(env_, missing, finnhub_answer, openai_answer) ==
    LET fh == IF "requests" \in missing THEN "import_error"
              ELSE IF KeyConfigured(env_.FINNHUB_API_KEY, GR_FINNHUB_PLACEHOLDER)
                   THEN finnhub_answer
                   ELSE "skipped"
        fh_failed == fh \in {"import_error", "bad_status", "exception"}
        oa == IF fh_failed THEN "not_run"
              ELSE IF "langchain_openai" \in missing THEN "import_error"
              ELSE IF KeyConfigured(env_.OPENAI_API_KEY, GR_OPENAI_PLACEHOLDER)
                   THEN openai_answer
                   ELSE "skipped"
    IN [finnhub |-> fh,
        openai |-> oa,
        requests |-> (IF fh \in {"ok", "bad_status", "exception"} THEN <<"finnhub">> ELSE <<>>)
                     \o (IF oa \in {"ok", "exception"} THEN <<"openai">> ELSE <<>>),
        result |-> ~fh_failed /\ oa \in {"skipped", "ok"}]

\* test_pdf_generation: the reportlab import, doc.build and the os.path.exists test.
test_pdf_generation(missing, build) == "reportlab" \notin missing /\ build = "created"

\* A loop that gives up at the first check that fails.
MainLoopStopOnFail(i, passed) ==
    IF passed /\ i < Len(TestPc) THEN TestPc[i + 1] ELSE "v_summary"

\* main's "for test_name, test_func in tests": what follows test number i.
MainLoopNext(i, passed) == IF i < Len(TestPc) THEN TestPc[i + 1] ELSE "v_summary"

VerifyInit ==
    /\ CleanIdle
    /\ NoObjects
    /\ script = "test_setup"
    /\ keys \in {k \in KeyConfigs :
                   /\ k.gr_finnhub = GR_FINNHUB_PLACEHOLDER
                   /\ k.gr_openai = GR_OPENAI_PLACEHOLDER
                   /\ k.eu_finnhub = EU_FINNHUB_PLACEHOLDER
                   /\ k.eu_openai = EU_OPENAI_PLACEHOLDER}
    /\ env \in ShellEnvs
    /\ pc = "v_imports"
    /\ exitCode = -1
    /\ log = <<>>
    /\ today = TODAY
    /\ failure = "none"
    /\ \E missing \in SUBSET RequiredPackages :
         verifier = [NoVerifier EXCEPT !.missing = missing]

verifyFrame == <<script, keys, env, today, log, failure, generator, final_state, decision,
                 output_arg, story, output_file, cleanVars>>

\* main, lines 170-176: test number i returned outcome ("True" or "False") or
\* raised ("raised"); one entry is appended and the loop goes on.
Recorded(v, i, outcome) ==
    [v EXCEPT !.results = Append(@, [name |-> TestOrder[i], result |-> outcome = "True"]),
              !.how = Append(@, IF outcome = "raised" THEN "raised" ELSE "returned")]

Outcome(b) == IF b THEN "True" ELSE "False"

\* test_imports (lines 11-40) under main's try: it catches ImportError only,
\* so an import that raises anything else reaches main's handler.
TestImports ==
    /\ pc = "v_imports"
    /\ \E outcome \in {Outcome(test_imports(verifier.missing)), "raised"} :
         /\ verifier' = Recorded(verifier, 1, outcome)
         /\ pc' = MainLoopNext(1, outcome = "True")
    /\ UNCHANGED <<exitCode, verifyFrame>>

\* test_tradingagents_import (lines 42-54): the framework imports, or raises
\* ImportError (False), or raises something else (main's handler).
TestTradingAgentsImport ==
    /\ pc = "v_tradingagents"
    /\ \E outcome \in {"True", "False", "raised"} :
         /\ verifier' = Recorded(verifier, 2, outcome)
         /\ pc' = MainLoopNext(2, outcome = "True")
    /\ UNCHANGED <<exitCode, verifyFrame>>

\* test_api_keys (lines 56-79)
TestApiKeys ==
    /\ pc = "v_api_keys"
    /\ verifier' = Recorded(verifier, 3, Outcome(test_api_keys(env)))
    /\ pc' = MainLoopNext(3, test_api_keys(env))
    /\ UNCHANGED <<exitCode, verifyFrame>>

\* test_api_connectivity (lines 81-119)
TestApiConnectivity ==
    /\ pc = "v_connectivity"
    /\ \E finnhub_answer \in {"ok", "bad_status", "exception"},
          openai_answer \in {"ok", "exception"} :
         LET r == test_api_connectivity(env, verifier.missing, finnhub_answer, openai_answer)
         IN /\ verifier' = [Recorded(verifier, 4, Outcome(r.result))
                               EXCEPT !.requests = r.requests,
                                      !.finnhub = r.finnhub,
                                      !.openai = r.openai]
            /\ pc' = MainLoopNext(4, r.result)
    /\ UNCHANGED <<exitCode, verifyFrame>>

\* test_pdf_generation (lines 121-153)
TestPdfGeneration ==
    /\ pc = "v_pdf"
    /\ \E build \in {"created", "not_created", "exception"} :
         /\ verifier' = Recorded(verifier, 5,
                                 Outcome(test_pdf_generation(verifier.missing, build)))
         /\ pc' = MainLoopNext(5, test_pdf_generation(verifier.missing, build))
    /\ UNCHANGED <<exitCode, verifyFrame>>

\* main, lines 178-189: the summary, one line per entry of results.
PrintSummary ==
    /\ pc = "v_summary"
    /\ verifier' = [verifier EXCEPT !.summary =
                       [i \in 1..Len(verifier.results) |->
                           [name |-> verifier.results[i].name,
                            status |-> IF verifier.results[i].result THEN "PASS" ELSE "FAIL"]]]
    /\ pc' = "v_verdict"
    /\ UNCHANGED <<exitCode, verifyFrame>>

\* main, lines 191-203: return when all passed, sys.exit(1) otherwise.
Verdict ==
    /\ pc = "v_verdict"
    /\ pc' = "exited"
    /\ exitCode' = IF \A i \in 1..Len(verifier.summary) : verifier.summary[i].status = "PASS"
                   THEN 0 ELSE 1
    /\ UNCHANGED <<verifier, verifyFrame>>

VerifyNext ==
    \/ TestImports
    \/ TestTradingAgentsImport
    \/ TestApiKeys
    \/ TestApiConnectivity
    \/ TestPdfGeneration
    \/ PrintSummary
    \/ Verdict

SpecVerify == VerifyInit /\ [][VerifyNext]_vars


\* ------------------------------------------------------------------------
\* Claims about the setup verifier
\* ------------------------------------------------------------------------

ChecksDone == Len(verifier.results)

SomeCheckFailed == \E i \in 1..ChecksDone : ~verifier.results[i].result

\* C11: the five checks run in the fixed order whether or not earlier ones
\* failed or raised, each leaving exactly one entry (a raise leaves a FAIL);
\* the summary has one PASS/FAIL line per check; the process does not exit
\* before the summary is printed, and exits with code 1 exactly when some
\* check failed.
C11_AllChecksRunThenVerdict ==
    script = "test_setup" =>
        /\ ChecksDone <= Len(TestOrder)
        /\ Len(verifier.how) = ChecksDone
        /\ \A i \in 1..ChecksDone :
             /\ verifier.results[i].name = TestOrder[i]
             /\ verifier.how[i] = "raised" => ~verifier.results[i].result
        /\ \A i \in 1..Len(TestPc) : pc = TestPc[i] => ChecksDone = i - 1
        /\ pc \in {"v_summary", "v_verdict", "exited"} => ChecksDone = Len(TestOrder)
        /\ pc \in {"v_verdict", "exited"} =>
             /\ Len(verifier.summary) = Len(TestOrder)
             /\ \A i \in 1..Len(verifier.summary) :
                  /\ verifier.summary[i].name = TestOrder[i]
                  /\ verifier.summary[i].status \in {"PASS", "FAIL"}
                  /\ verifier.summary[i].status = "PASS" <=> verifier.results[i].result
        /\ pc # "exited" => exitCode = -1
        /\ pc = "exited" =>
             /\ exitCode \in {0, 1}
             /\ exitCode = 1 <=> SomeCheckFailed

\* C11's case: the first check failed, the second raised, the last one still
\* ran and passed, and the process exited with code 1 after the summary.
C11_Witness ==
    /\ script = "test_setup"
    /\ pc = "exited"
    /\ exitCode = 1
    /\ ChecksDone = 5
    /\ ~verifier.results[1].result
    /\ verifier.how[2] = "raised"
    /\ verifier.results[5].result
    /\ verifier.summary[1].status = "FAIL"
    /\ verifier.summary[5].status = "PASS"

ConnectivityRan == script = "test_setup" /\ ChecksDone >= 4

Requested == {verifier.requests[i] : i \in 1..Len(verifier.requests)}

\* No request goes to a provider whose key is unset or is the placeholder.
NoRequestWithoutKey ==
    /\ env.FINNHUB_API_KEY \in {UNSET, GR_FINNHUB_PLACEHOLDER} => "finnhub" \notin Requested
    /\ env.OPENAI_API_KEY \in {UNSET, GR_OPENAI_PLACEHOLDER} => "openai" \notin Requested

\* The language-model provider is contacted only if the market-data test did not fail.
OpenAiOnlyAfterFinnhub == "openai" \in Requested => verifier.finnhub \in {"ok", "skipped"}

NoRequestFailed ==
    /\ verifier.finnhub \notin {"bad_status", "exception"}
    /\ verifier.openai # "exception"

NoImportFailed == verifier.finnhub # "import_error" /\ verifier.openai # "import_error"

\* C14 as stated: no request to a provider without a configured key, the
\* language-model provider contacted only if the market-data test did not
\* fail, and success reported whenever no attempted request failed.
C14_SuccessUnlessRequestFailed ==
    ConnectivityRan =>
        /\ NoRequestWithoutKey
        /\ OpenAiOnlyAfterFinnhub
        /\ NoRequestFailed => verifier.results[4].result

\* C14 amended: as stated, except that success is reported whenever no
\* attempted request failed and neither client library (requests,
\* langchain_openai) failed to import; a failed import makes the check report
\* failure with no request sent to that provider.
C14_SuccessUnlessRequestOrImportFailed ==
    ConnectivityRan =>
        /\ NoRequestWithoutKey
        /\ OpenAiOnlyAfterFinnhub
        /\ (NoRequestFailed /\ NoImportFailed) => verifier.results[4].result
        /\ ~NoImportFailed => ~verifier.results[4].result
        /\ verifier.finnhub = "import_error" => Requested = {}
        /\ verifier.openai = "import_error" => "openai" \notin Requested

\* C14's case: neither key is configured (one is the placeholder, one is
\* unset), both providers were skipped, nothing was requested, and the check passed.
C14_Witness ==
    /\ ConnectivityRan
    /\ env.FINNHUB_API_KEY = GR_FINNHUB_PLACEHOLDER
    /\ env.OPENAI_API_KEY = UNSET
    /\ verifier.finnhub = "skipped"
    /\ verifier.openai = "skipped"
    /\ Requested = {}
    /\ verifier.results[4].result

=============================================================================
